---- MODULE Spec2Model ----
(***************************************************************************)
(* Model of the authentication endpoint (apps/api/v1/controllers/auth.py)  *)
(* and of the settings module (apps/core/config.py).                       *)
(*                                                                         *)
(* Spec       : the login controller served by concurrent request          *)
(*              handlers, with the settings loaded from the environment.   *)
(* SpecConfig : the import of the settings module and the callers of the   *)
(*              cached get_settings().                                     *)
(***************************************************************************)
EXTENDS Integers, Sequences, FiniteSets, TLC

VARIABLES
    environ,    \* the process environment (.env.local), read by the settings
    auth_cfg,   \* settings.auth, as loaded at process start
    https,      \* whether this deployment is served over https
    now,        \* the clock, in minutes
    pc,         \* pc[h]: position of request handler h
    req,        \* req[h]: the request handler h is serving
    resp,       \* resp[h]: the response handler h produced
    mintlog,    \* mintlog[h]: the tokens minted while serving req[h]
    jar,        \* the client's cookie jar: the refresh cookie it holds
    phase,      \* config module: "importing" until line 153 has run
    cache,      \* lru_cache of get_settings: {} or {object id}
    objects,    \* the Settings objects constructed so far, by object id
    gpc,        \* gpc[c]: position of caller c inside get_settings()
    got,        \* got[c]: object id the last get_settings() call returned
    seen        \* seen[c]: the configurations caller c has read so far

login_vars == <<auth_cfg, https, now, pc, req, resp, mintlog, jar>>
config_vars == <<phase, cache, objects, gpc, got, seen>>
vars == <<environ, auth_cfg, https, now, pc, req, resp, mintlog, jar,
          phase, cache, objects, gpc, got, seen>>

----------------------------------------------------------------------------
(* Bounds *)

NumHandlers == 2
MaxTime == 1
NumCallers == 2

Handlers == 1..NumHandlers
Callers == 0..NumCallers      \* caller 0 is the module import (line 153)

----------------------------------------------------------------------------
(* apps/core/config.py: settings loaded from the environment.  An          *)
(* environment gives each alias a set: {} when the variable is not set,    *)
(* {v} when it is set to v.                                                *)

DEFAULT_ACCESS_TOKEN_EXPIRE_MINUTES == 60
DEFAULT_REFRESH_TOKEN_EXPIRE_MINUTES == 10000

AuthEnvs ==
    [ACCESS_TOKEN_EXPIRE_MINUTES : {{}, {0}, {-1}},
     REFRESH_TOKEN_EXPIRE_MINUTES : {{}, {1}}]

DbEnvs ==
    [PG_DATABASE : {{}, {"appdb"}},
     PG_TEST_DATABASE : {{}, {"appdb_test"}},
     PYTEST_DEBUG : {{}, {TRUE}}]

Envs == [auth : AuthEnvs, db : DbEnvs]

NoOverrides(env) == \A k \in DOMAIN env : env[k] = {}

\* pydantic Field(default=..., alias=...): the environment value if set
Field(env, alias, default) ==
    IF env[alias] = {} THEN default ELSE CHOOSE v \in env[alias] : TRUE

\* AuthSettings with the two defaults exchanged (a faulty variant).
AuthSettings_DefaultsSwapped(env) ==
    [access_token_expire_minutes |->
        Field(env, "ACCESS_TOKEN_EXPIRE_MINUTES", DEFAULT_REFRESH_TOKEN_EXPIRE_MINUTES),
     refresh_token_expire_minutes |->
        Field(env, "REFRESH_TOKEN_EXPIRE_MINUTES", DEFAULT_ACCESS_TOKEN_EXPIRE_MINUTES)]

AuthSettings(env) ==
    [access_token_expire_minutes |->
        Field(env, "ACCESS_TOKEN_EXPIRE_MINUTES", DEFAULT_ACCESS_TOKEN_EXPIRE_MINUTES),
     refresh_token_expire_minutes |->
        Field(env, "REFRESH_TOKEN_EXPIRE_MINUTES", DEFAULT_REFRESH_TOKEN_EXPIRE_MINUTES)]

build_db_dsn(username, password, host, port, database, async_dsn) ==
    [drivername |-> IF async_dsn THEN "postgresql+asyncpg" ELSE "postgresql",
     username |-> username,
     password |-> password,
     host |-> host,
     port |-> port,
     database |-> database]

validate_async_database_url(self) ==
    LET db_name == IF self.pytest_debug THEN self.pg_test_database
                   ELSE self.pg_database
    IN [self EXCEPT !.async_database_url =
            {build_db_dsn(self.pg_user, self.pg_password, self.pg_host,
                          self.pg_port, db_name, TRUE)}]

validate_sync_database_url(self) ==
    [self EXCEPT !.sync_database_url =
        {build_db_dsn(self.pg_user, self.pg_password, self.pg_host,
                      self.pg_port, self.pg_database, FALSE)}]

\* the fields from the environment, then both "after" validators
DatabaseSettings(env) ==
    validate_sync_database_url(validate_async_database_url(
        [pg_host |-> "localhost",
         pg_user |-> "postgres",
         pg_password |-> "postgres",
         pg_database |-> Field(env, "PG_DATABASE", "postgres"),
         pg_port |-> 5432,
         pg_test_database |-> Field(env, "PG_TEST_DATABASE", "doctor_test"),
         pytest_debug |-> Field(env, "PYTEST_DEBUG", FALSE),
         async_database_url |-> {},
         sync_database_url |-> {}]))

Settings(env) ==
    [env |-> env, auth |-> AuthSettings(env.auth), db |-> DatabaseSettings(env.db)]

----------------------------------------------------------------------------
(* Collaborators of the login controller                                    *)

NoUser == [id |-> 0, username |-> <<>>, email |-> <<>>, password_hash |-> <<>>]

hash_password(secret) == <<"bcrypt", secret>>

UserStore ==
    {[id |-> 1, username |-> <<"d", "o", "c">>, email |-> <<"d", "o", "c", "@", "x">>,
      password_hash |-> hash_password("securepassword")],
     [id |-> 2, username |-> <<"a", "n", "n">>, email |-> <<"a", "n", "n", "@", "x">>,
      password_hash |-> hash_password("hunter2")]}

Identifiers ==
    {<<"d", "o", "c">>, <<"a", "n", "n", "@", "x">>, <<"b", "o", "b", "@", "x">>}
Passwords == {"securepassword", "hunter2"}

IsEmail(identifier) == \E i \in DOMAIN identifier : identifier[i] = "@"

find_by_username_or_email(identifier) ==
    IF IsEmail(identifier)
    THEN {u \in UserStore : u.email = identifier}
    ELSE {u \in UserStore : u.username = identifier}

verify_password(secret, password_hash) == hash_password(secret) = password_hash

\* AuthService.user_authenticate: the user, or the error it raises
user_authenticate(credentials, password) ==
    LET found == find_by_username_or_email(credentials)
    IN IF found = {}
       THEN [ok |-> FALSE, error |-> "UserNotFoundError", user |-> NoUser]
       ELSE LET user == CHOOSE u \in found : TRUE
            IN IF verify_password(password, user.password_hash)
               THEN [ok |-> TRUE, error |-> "", user |-> user]
               ELSE [ok |-> FALSE, error |-> "InvalidCredentialsError", user |-> NoUser]

NoToken == [sub |-> "", kind |-> "none", iat |-> 0, exp |-> 0]

\* Token Codec: claims {sub, kind, iat = now, exp = now + ttl}
mint(subject, kind, ttl, t) ==
    [sub |-> subject, kind |-> kind, iat |-> t, exp |-> t + ttl]

verify(token, expected_kind, t) ==
    /\ token # NoToken
    /\ token.kind = expected_kind
    /\ token.exp > t

create_access_token(subject, t, cfg) ==
    mint(subject, "access", cfg.access_token_expire_minutes, t)

create_refresh_token(subject, t, cfg) ==
    mint(subject, "refresh", cfg.refresh_token_expire_minutes, t)

REFRESH == "refresh_token"

TokenInfoSchema(access_token) ==
    [tokens |-> {[key |-> "access_token", value |-> access_token]}, detail |-> ""]

EmptyBody == [tokens |-> {}, detail |-> ""]

\* the Response object FastAPI injects into the controller
NewResponse == [status |-> 200, body |-> EmptyBody, cookies |-> {}]

\* Faulty variant of error_response: the error kind reaches the client.
error_response_LeakKind(error) ==
    [status |-> IF error = "UserNotFoundError" THEN 404 ELSE 401,
     body |-> [tokens |-> {}, detail |-> error],
     cookies |-> {}]

\* the exception handlers: both authentication errors surface as one 401
error_response(error) ==
    [status |-> 401,
     body |-> [tokens |-> {}, detail |-> "Invalid credentials"],
     cookies |-> {}]

not_found_response ==
    [status |-> 404, body |-> [tokens |-> {}, detail |-> "Not Found"], cookies |-> {}]

----------------------------------------------------------------------------
(* apps/api/v1/controllers/auth.py                                          *)

LOGIN_PATH == "/api/v1/auth/login"
REFRESH_PATH == "/api/v1/auth/refresh"

\* the routes the router registers: the refresh controller is commented out
Routes == {LOGIN_PATH}
DisabledPaths == {REFRESH_PATH}

NoReq == [path |-> "", credentials |-> <<>>, password |-> "", cookie |-> NoToken, at |-> 0]

set_cookie(response, key, value, httponly, secure) ==
    [response EXCEPT !.cookies =
        {c \in @ : c.key # key}
            \cup {[key |-> key, value |-> value, httponly |-> httponly, secure |-> secure]}]

\* Faulty variants of login_issue: the refresh token minted for another
\* subject, and the refresh token also returned in the body.
login_issue_RefreshOtherSubject(user, response, t, cfg) ==
    LET access_token == create_access_token(ToString(user.id), t, cfg)
        refresh_token == create_refresh_token(ToString(user.id + 1), t, cfg)
    IN [response |-> [set_cookie(response, REFRESH, refresh_token, TRUE, FALSE)
                        EXCEPT !.body = TokenInfoSchema(access_token)],
        minted |-> <<access_token, refresh_token>>]

login_issue_RefreshInBody(user, response, t, cfg) ==
    LET access_token == create_access_token(ToString(user.id), t, cfg)
        refresh_token == create_refresh_token(ToString(user.id), t, cfg)
    IN [response |-> [set_cookie(response, REFRESH, refresh_token, TRUE, FALSE)
                        EXCEPT !.body =
                            [tokens |-> {[key |-> "access_token", value |-> access_token],
                                         [key |-> "refresh_token", value |-> refresh_token]},
                             detail |-> ""]],
        minted |-> <<access_token, refresh_token>>]

\* lines 33-40: what login does once user_authenticate has returned
login_issue(user, response, t, cfg) ==
    LET access_token == create_access_token(ToString(user.id), t, cfg)
        refresh_token == create_refresh_token(ToString(user.id), t, cfg)
    IN [response |-> [set_cookie(response, REFRESH, refresh_token, TRUE, FALSE)
                        EXCEPT !.body = TokenInfoSchema(access_token)],
        minted |-> <<access_token, refresh_token>>]

\* Faulty variant of login_failed: the cookie is set before authentication.
login_failed_CookieFirst(error, response, t, cfg) ==
    LET refresh_token == create_refresh_token("0", t, cfg)
    IN [response |-> [error_response(error) EXCEPT !.cookies =
                        set_cookie(response, REFRESH, refresh_token, TRUE, FALSE).cookies],
        minted |-> <<refresh_token>>]

\* line 32 raising: nothing after it runs, the exception handler answers
login_failed(error, response, t, cfg) ==
    [response |-> error_response(error), minted |-> <<>>]

Init ==
    /\ environ \in {e \in Envs : NoOverrides(e.db)}
    /\ auth_cfg = AuthSettings(environ.auth)
    /\ https \in BOOLEAN
    /\ now = 0
    /\ pc = [h \in Handlers |-> "idle"]
    /\ req = [h \in Handlers |-> NoReq]
    /\ resp = [h \in Handlers |-> NewResponse]
    /\ mintlog = [h \in Handlers |-> <<>>]
    /\ jar = NoToken
    /\ phase = "serving"
    /\ cache = {}
    /\ objects = <<>>
    /\ gpc = [c \in Callers |-> "idle"]
    /\ got = [c \in Callers |-> 0]
    /\ seen = [c \in Callers |-> {}]

\* POST /login arrives; the controller runs up to the await on line 32
login_await(h, credentials, password) ==
    /\ pc[h] = "idle"
    /\ pc' = [pc EXCEPT ![h] = "awaiting"]
    /\ req' = [req EXCEPT ![h] = [path |-> LOGIN_PATH, credentials |-> credentials,
                                  password |-> password, cookie |-> NoToken, at |-> 0]]
    /\ resp' = [resp EXCEPT ![h] = NewResponse]
    /\ mintlog' = [mintlog EXCEPT ![h] = <<>>]
    /\ UNCHANGED <<environ, auth_cfg, https, now, jar>>
    /\ UNCHANGED config_vars

\* user_authenticate returned a user: lines 33-40 run to the return
login_return(h) ==
    /\ pc[h] = "awaiting"
    /\ LET a == user_authenticate(req[h].credentials, req[h].password)
       IN /\ a.ok
          /\ LET r == login_issue(a.user, resp[h], now, auth_cfg)
             IN /\ resp' = [resp EXCEPT ![h] = r.response]
                /\ mintlog' = [mintlog EXCEPT ![h] = r.minted]
    /\ pc' = [pc EXCEPT ![h] = "done"]
    /\ UNCHANGED <<environ, auth_cfg, https, now, req, jar>>
    /\ UNCHANGED config_vars

\* user_authenticate raised: the exception leaves login at line 32
login_raise(h) ==
    /\ pc[h] = "awaiting"
    /\ LET a == user_authenticate(req[h].credentials, req[h].password)
       IN /\ ~a.ok
          /\ LET r == login_failed(a.error, resp[h], now, auth_cfg)
             IN /\ resp' = [resp EXCEPT ![h] = r.response]
                /\ mintlog' = [mintlog EXCEPT ![h] = r.minted]
    /\ pc' = [pc EXCEPT ![h] = "done"]
    /\ UNCHANGED <<environ, auth_cfg, https, now, req, jar>>
    /\ UNCHANGED config_vars

\* a request to a path whose controller is commented out (lines 44-74)
disabled_route(h, path) ==
    /\ pc[h] = "idle"
    /\ path \notin Routes
    /\ pc' = [pc EXCEPT ![h] = "done"]
    /\ req' = [req EXCEPT ![h] = [path |-> path, credentials |-> <<>>,
                                  password |-> "", cookie |-> jar, at |-> now]]
    /\ resp' = [resp EXCEPT ![h] = not_found_response]
    /\ mintlog' = [mintlog EXCEPT ![h] = <<>>]
    /\ UNCHANGED <<environ, auth_cfg, https, now, jar>>
    /\ UNCHANGED config_vars

\* the client receives the response and stores the cookie it sets
deliver(h) ==
    /\ pc[h] = "done"
    /\ pc' = [pc EXCEPT ![h] = "idle"]
    /\ jar' = IF \E c \in resp[h].cookies : c.key = REFRESH
              THEN (CHOOSE c \in resp[h].cookies : c.key = REFRESH).value
              ELSE jar
    /\ req' = [req EXCEPT ![h] = NoReq]
    /\ resp' = [resp EXCEPT ![h] = NewResponse]
    /\ mintlog' = [mintlog EXCEPT ![h] = <<>>]
    /\ UNCHANGED <<environ, auth_cfg, https, now>>
    /\ UNCHANGED config_vars

tick ==
    /\ now < MaxTime
    /\ now' = now + 1
    /\ UNCHANGED <<environ, auth_cfg, https, pc, req, resp, mintlog, jar>>
    /\ UNCHANGED config_vars

Next ==
    \/ \E h \in Handlers, credentials \in Identifiers, password \in Passwords :
            login_await(h, credentials, password)
    \/ \E h \in Handlers : login_return(h)
    \/ \E h \in Handlers : login_raise(h)
    \/ \E h \in Handlers, path \in DisabledPaths : disabled_route(h, path)
    \/ \E h \in Handlers : deliver(h)
    \/ tick

Spec == Init /\ [][Next]_vars

----------------------------------------------------------------------------
(* apps/core/config.py, lines 145-153: the cached get_settings()           *)

InitConfig ==
    /\ environ \in Envs
    /\ auth_cfg = AuthSettings(environ.auth)
    /\ https = FALSE
    /\ now = 0
    /\ pc = [h \in Handlers |-> "idle"]
    /\ req = [h \in Handlers |-> NoReq]
    /\ resp = [h \in Handlers |-> NewResponse]
    /\ mintlog = [h \in Handlers |-> <<>>]
    /\ jar = NoToken
    /\ phase = "importing"
    /\ cache = {}
    /\ objects = <<>>
    /\ gpc = [c \in Callers |-> "idle"]
    /\ got = [c \in Callers |-> 0]
    /\ seen = [c \in Callers |-> {}]

\* Faulty variant of may_call: without line 153 the first calls come from
\* the request handlers, which run concurrently.
may_call_NoImportCall(c) == c # 0

\* line 153 runs while the module is imported; a handler can call
\* get_settings() only once the import has finished
may_call(c) == IF c = 0 THEN phase = "importing" ELSE phase = "serving"

\* lru_cache wrapper: a hit returns the cached object, a miss calls Settings()
get_settings_call(c) ==
    /\ gpc[c] = "idle"
    /\ may_call(c)
    /\ IF cache # {}
       THEN /\ got' = [got EXCEPT ![c] = CHOOSE o \in cache : TRUE]
            /\ gpc' = [gpc EXCEPT ![c] = "returned"]
       ELSE /\ gpc' = [gpc EXCEPT ![c] = "constructing"]
            /\ UNCHANGED got
    /\ UNCHANGED <<phase, cache, objects, seen, environ>>
    /\ UNCHANGED login_vars

\* line 150: Settings() is constructed; the wrapper stores the result
\* unless another caller has stored one meanwhile
get_settings_construct(c) ==
    /\ gpc[c] = "constructing"
    /\ objects' = Append(objects, Settings(environ))
    /\ cache' = IF cache = {} THEN {Len(objects) + 1} ELSE cache
    /\ got' = [got EXCEPT ![c] = Len(objects) + 1]
    /\ gpc' = [gpc EXCEPT ![c] = "returned"]
    /\ UNCHANGED <<phase, seen, environ>>
    /\ UNCHANGED login_vars

\* the caller reads the object it was given; for the import this binds
\* the module-level name settings and the import is over
use_settings(c) ==
    /\ gpc[c] = "returned"
    /\ seen' = [seen EXCEPT ![c] = @ \cup {objects[got[c]]}]
    /\ gpc' = [gpc EXCEPT ![c] = "idle"]
    /\ phase' = IF c = 0 THEN "serving" ELSE phase
    /\ UNCHANGED <<cache, objects, got, environ>>
    /\ UNCHANGED login_vars

NextConfig ==
    \/ \E c \in Callers : get_settings_call(c)
    \/ \E c \in Callers : get_settings_construct(c)
    \/ \E c \in Callers : use_settings(c)

SpecConfig == InitConfig /\ [][NextConfig]_vars

----------------------------------------------------------------------------
(* Properties                                                               *)

LoginDone(h) == pc[h] = "done" /\ req[h].path = LOGIN_PATH
AuthOf(h) == user_authenticate(req[h].credentials, req[h].password)
MintedBy(h) == {mintlog[h][i] : i \in DOMAIN mintlog[h]}

\* C1: whenever user_authenticate returns a user, login answers 200 with an
\* access token in the body and an HttpOnly refresh cookie, and every token
\* minted for the request (the access and the refresh token) has the id of
\* that user as its subject.
C1_LoginIssuesTokensForUser ==
    \A h \in Handlers :
        (LoginDone(h) /\ AuthOf(h).ok) =>
            LET sub == ToString(AuthOf(h).user.id)
            IN /\ resp[h].status = 200
               /\ \E b \in resp[h].body.tokens :
                    /\ b.key = "access_token"
                    /\ b.value # NoToken
                    /\ b.value.kind = "access"
                    /\ b.value.sub = sub
               /\ \E c \in resp[h].cookies :
                    /\ c.key = REFRESH
                    /\ c.httponly
                    /\ c.value.kind = "refresh"
                    /\ c.value.sub = sub
               /\ Len(mintlog[h]) = 2
               /\ \A tok \in MintedBy(h) : tok.sub = sub

C1_Witness ==
    \E h \in Handlers :
        /\ LoginDone(h)
        /\ AuthOf(h).ok
        /\ AuthOf(h).user.id = 2
        /\ resp[h].status = 200

\* C2: when user_authenticate raises, login ends in 401 with no token
\* minted, no token in the body and no cookie set; and at every point of
\* every request, a minted token or a set cookie implies that
\* user_authenticate has returned a user for that request.
C2_NothingIssuedOnFailure ==
    \A h \in Handlers :
        /\ (LoginDone(h) /\ ~AuthOf(h).ok) =>
                /\ resp[h].status = 401
                /\ mintlog[h] = <<>>
                /\ resp[h].body.tokens = {}
                /\ resp[h].cookies = {}
        /\ (mintlog[h] # <<>> \/ resp[h].cookies # {}) =>
                (LoginDone(h) /\ AuthOf(h).ok)

C2_Witness ==
    \E h \in Handlers :
        /\ LoginDone(h)
        /\ AuthOf(h).error = "InvalidCredentialsError"
        /\ resp[h].status = 401

\* C3: a login with an identifier that is not in the user store and a login
\* with a stored identifier and a wrong password end in the same response
\* (status, body, cookies) and leave the same tokens minted (none).
C3_EnumerationResistance ==
    \A h1, h2 \in Handlers :
        (/\ LoginDone(h1) /\ AuthOf(h1).error = "UserNotFoundError"
         /\ LoginDone(h2) /\ AuthOf(h2).error = "InvalidCredentialsError")
            => (resp[h1] = resp[h2] /\ mintlog[h1] = mintlog[h2])

C3_Witness ==
    \E h1, h2 \in Handlers :
        /\ LoginDone(h1) /\ find_by_username_or_email(req[h1].credentials) = {}
        /\ LoginDone(h2) /\ find_by_username_or_email(req[h2].credentials) # {}
        /\ ~AuthOf(h2).ok

\* C4: the Secure attribute of the refresh cookie follows the deployment:
\* where the service is deployed over https the cookie is set with secure.
C4_SecureFollowsDeployment ==
    \A h \in Handlers :
        (LoginDone(h) /\ resp[h].status = 200) =>
            \A c \in resp[h].cookies : c.key = REFRESH => c.secure = https

\* C5: in a successful login the body holds the access token and nothing
\* else, the refresh token is not in the body, and the only cookie is the
\* HttpOnly refresh cookie whose value is the refresh token minted for the
\* request, never the access token.
C5_RefreshOnlyInCookie ==
    \A h \in Handlers :
        (LoginDone(h) /\ resp[h].status = 200) =>
            /\ \A b \in resp[h].body.tokens :
                    b.key = "access_token" /\ b.value.kind = "access"
            /\ Cardinality(resp[h].body.tokens) = 1
            /\ \A c \in resp[h].cookies :
                    /\ c.key = REFRESH
                    /\ c.httponly
                    /\ c.value.kind = "refresh"
                    /\ c.value \in MintedBy(h)
                    /\ \A b \in resp[h].body.tokens : b.value # c.value
            /\ Cardinality(resp[h].cookies) = 1

C5_Witness ==
    \E h \in Handlers :
        /\ LoginDone(h)
        /\ resp[h].status = 200
        /\ \E c \in resp[h].cookies : c.value.kind = "refresh"
        /\ \E b \in resp[h].body.tokens : b.value.kind = "access"

\* C6: from the Issued state (the client holds the refresh cookie of a
\* successful login), presenting a refresh token that verifies yields a new
\* access token and the session stays Issued.
C6_RefreshYieldsAccessToken ==
    \A h \in Handlers :
        (/\ pc[h] = "done"
         /\ req[h].path = REFRESH_PATH
         /\ verify(req[h].cookie, "refresh", req[h].at))
            => /\ resp[h].status = 200
               /\ \E b \in resp[h].body.tokens :
                    b.key = "access_token" /\ b.value.kind = "access"

\* C8: every token minted by login has expires_at > issued_at, whatever
\* TTLs the settings were loaded with.
C8_ExpiresAfterIssued ==
    \A h \in Handlers : \A tok \in MintedBy(h) : tok.exp > tok.iat

----------------------------------------------------------------------------
(* Properties of the settings module (SpecConfig)                           *)

\* C7 as stated: with no overrides the access TTL is 60 minutes and the
\* refresh TTL is 7 days, 10080 minutes.
C7_DefaultRefreshIsSevenDays ==
    \A i \in DOMAIN objects :
        NoOverrides(objects[i].env.auth) =>
            /\ objects[i].auth.access_token_expire_minutes = 60
            /\ objects[i].auth.refresh_token_expire_minutes = 10080

\* C7 amended: with no overrides the access TTL is 60 minutes and the
\* refresh TTL is 10000 minutes, which is strictly greater.
C7_DefaultTTLs ==
    \A i \in DOMAIN objects :
        NoOverrides(objects[i].env.auth) =>
            /\ objects[i].auth.access_token_expire_minutes = 60
            /\ objects[i].auth.refresh_token_expire_minutes = 10000
            /\ objects[i].auth.refresh_token_expire_minutes
                    > objects[i].auth.access_token_expire_minutes

C7_Witness ==
    /\ phase = "serving"
    /\ Len(objects) = 1
    /\ NoOverrides(objects[1].env.auth)

\* C9: under every interleaving of get_settings() calls, at most one
\* Settings object is ever constructed, exactly one once the import is
\* over, every call returns that object, and every caller has read one and
\* the same configuration from it.
C9_SettingsConstructedOnce ==
    /\ Len(objects) <= 1
    /\ phase = "serving" => Len(objects) = 1 /\ cache = {1}
    /\ \A c \in Callers : gpc[c] = "returned" => got[c] = 1
    /\ \A c \in Callers : seen[c] \subseteq {objects[i] : i \in DOMAIN objects}
    /\ \A c, d \in Callers : Cardinality(seen[c] \cup seen[d]) <= 1

C9_Witness ==
    \E c, d \in Callers :
        /\ c # 0 /\ d # 0 /\ c # d
        /\ gpc[c] = "returned"
        /\ gpc[d] = "returned"
        /\ seen[c] # {}

\* C10: after both validators, async_database_url and sync_database_url
\* name the same database (pg_test_database under pytest_debug, pg_database
\* otherwise), with the same user, password, host and port, and differ in
\* the driver name only.
C10_SameDatabase ==
    \A i \in DOMAIN objects :
        LET db == objects[i].db
        IN \A a \in db.async_database_url : \A s \in db.sync_database_url :
            /\ a.database = s.database
            /\ a.database = (IF db.pytest_debug THEN db.pg_test_database
                             ELSE db.pg_database)
            /\ a.username = s.username
            /\ a.password = s.password
            /\ a.host = s.host
            /\ a.port = s.port
            /\ a.drivername # s.drivername

====
